---- MODULE Spec2Model ----
(***************************************************************************)
(* Model of the calculation-graph engine (graphs.py), the calculation      *)
(* units (nodes.py), their input validators (inputs.py) and the frequency  *)
(* handlers (frequencies.py).                                              *)
(*                                                                         *)
(* Python values are tagged records ([py |-> <type name>, ...]); a call's  *)
(* outcome is either Return(value) or Raise(exception type, message).      *)
(***************************************************************************)
EXTENDS Integers, Sequences, FiniteSets, TLC

VARIABLES
    graph,          \* the DiGraph built by the constructor (immutable topology)
    set_order,      \* the order in which a set of this graph's nodes is enumerated
    edge_data,      \* per edge: the attribute dictionary's 'compute' / 'output_frequency' slots
    result_cache,   \* per node: _result_cache
    last,           \* the most recent call on the graph: operation, arguments, outcome, trace
    ncalls,         \* number of calls made on this graph instance
    hcall           \* the most recent direct call of a frequency handler

vars == <<graph, set_order, edge_data, result_cache, last, ncalls, hcall>>

\* ------------------------------------------------------------------ bounds

MaxEdges == 3
MaxCalls == 2
MaxArity == 3
MaxChain == 12

\* ----------------------------------------------------------- Python values

PyNone == [py |-> "None"]
NoKey == [py |-> "<missing key>"]
PyStr(s) == [py |-> "str", value |-> s]
FreqVal(f) == [py |-> "FreqStr", value |-> f]
Series(name, vals) == [py |-> "Series", name |-> name, vals |-> vals]
DataFrame(cols) == [py |-> "DataFrame", cols |-> cols]
PyList(items) == [py |-> "list", items |-> items]

Return(v) == [exc |-> "none", value |-> v]
Raise(e, m) == [exc |-> e, msg |-> m]

Min2(a, b) == IF a <= b THEN a ELSE b

\* ------------------------------------------------------- frequencies.py

FreqNames == {"D", "M", "Q", "A"}

\* Faulty variant of numbervalue: the ranks of 'Q' and 'A' exchanged.
numbervalue_swapped(f) ==
    CASE f = "D" -> 1 [] f = "M" -> 2 [] f = "Q" -> 4 [] f = "A" -> 3

numbervalue(f) ==
    CASE f = "D" -> 1 [] f = "M" -> 2 [] f = "Q" -> 3 [] f = "A" -> 4

__ge__(self, other) == numbervalue(self.value) >= numbervalue(other.value)
__gt__(self, other) == numbervalue(self.value) > numbervalue(other.value)
__le__(self, other) == numbervalue(self.value) <= numbervalue(other.value)
__lt__(self, other) == numbervalue(self.value) < numbervalue(other.value)

\* FreqStr(x): the enumeration member whose value is x; ValueError otherwise.
FreqStr(x) ==
    IF x.py \in {"str", "FreqStr"} /\ x.value \in FreqNames
    THEN Return(FreqVal(x.value))
    ELSE Raise("ValueError", "is not a valid FreqStr")

\* A handler object: its class and configuration.  INPUTS_N is <<>> for None.
PassthroughFrequency == [cls |-> "PassthroughFrequency", INPUTS_N |-> <<1>>]
IdenticalFrequencies(n) == [cls |-> "IdenticalFrequencies", INPUTS_N |-> n]
CoarsestFrequency == [cls |-> "CoarsestFrequency", INPUTS_N |-> <<>>]
FinestFrequency == [cls |-> "FinestFrequency", INPUTS_N |-> <<>>]
DownsampleFrequency(target_freq) ==
    [cls |-> "DownsampleFrequency", INPUTS_N |-> <<1>>, target_freq |-> target_freq]

\* Faulty variant of FrequencyHandler.output_frequency: no arity check.
FrequencyHandler_output_frequency_unchecked(self, input_freqs) == Return(PyNone)

\* FrequencyHandler.output_frequency: the arity check of the base class.
FrequencyHandler_output_frequency(self, input_freqs) ==
    IF self.INPUTS_N # <<>> /\ Len(input_freqs) # self.INPUTS_N[1]
    THEN Raise("TypeError", "Accepts exactly INPUTS_N inputs.")
    ELSE Return(PyNone)

\* Binding a call's arguments to a method that declares one positional parameter.
OnePositional(args) ==
    IF Len(args) = 1
    THEN Return(PyNone)
    ELSE Raise("TypeError", "wrong number of positional arguments")

PassthroughFrequency_output_frequency(self, args) ==
    LET bound == OnePositional(args)
        arity == FrequencyHandler_output_frequency(self, args)
    IN IF bound.exc # "none" THEN bound
       ELSE IF arity.exc # "none" THEN arity
       ELSE FreqStr(args[1])

\* len(set(input_freqs))
DistinctCount(input_freqs) ==
    Cardinality({input_freqs[i].value : i \in DOMAIN input_freqs})

IdenticalFrequencies_output_frequency(self, input_freqs) ==
    LET arity == FrequencyHandler_output_frequency(self, input_freqs)
    IN IF arity.exc # "none" THEN arity
       ELSE IF DistinctCount(input_freqs) > 1
       THEN Raise("ValueError", "Needs identical frequencies.")
       ELSE IF Len(input_freqs) = 0
       THEN Raise("IndexError", "tuple index out of range")
       ELSE FreqStr(input_freqs[1])

\* max(list): the first item stays unless a later item compares greater (item > best).
RECURSIVE PyMax(_)
PyMax(items) ==
    IF Len(items) = 1 THEN items[1]
    ELSE LET best == PyMax(SubSeq(items, 1, Len(items) - 1))
             item == items[Len(items)]
         IN IF __gt__(item, best) THEN item ELSE best

\* min(list): the first item stays unless a later item compares smaller (item < best).
RECURSIVE PyMin(_)
PyMin(items) ==
    IF Len(items) = 1 THEN items[1]
    ELSE LET best == PyMin(SubSeq(items, 1, Len(items) - 1))
             item == items[Len(items)]
         IN IF __lt__(item, best) THEN item ELSE best

\* [FreqStr(fr) for fr in input_freqs]: a failing conversion raises.
ConvertAll(input_freqs) ==
    LET converted == [i \in DOMAIN input_freqs |-> FreqStr(input_freqs[i])]
    IN IF \E i \in DOMAIN converted : converted[i].exc # "none"
       THEN Raise("ValueError", "is not a valid FreqStr")
       ELSE Return(PyList([i \in DOMAIN converted |-> converted[i].value]))

CoarsestFrequency_output_frequency(self, input_freqs) ==
    LET arity == FrequencyHandler_output_frequency(self, input_freqs)
        converted == ConvertAll(input_freqs)
    IN IF arity.exc # "none" THEN arity
       ELSE IF converted.exc # "none" THEN converted
       ELSE IF Len(input_freqs) = 0
       THEN Raise("ValueError", "max() arg is an empty sequence")
       ELSE Return(PyMax(converted.value.items))

FinestFrequency_output_frequency(self, input_freqs) ==
    LET arity == FrequencyHandler_output_frequency(self, input_freqs)
        converted == ConvertAll(input_freqs)
    IN IF arity.exc # "none" THEN arity
       ELSE IF converted.exc # "none" THEN converted
       ELSE IF Len(input_freqs) = 0
       THEN Raise("ValueError", "min() arg is an empty sequence")
       ELSE Return(PyMin(converted.value.items))

\* Faulty variant of DownsampleFrequency.output_frequency: >= in place of >.
DownsampleFrequency_ge(self, args) ==
    LET bound == OnePositional(args)
        arity == FrequencyHandler_output_frequency(self, args)
        input_freq == FreqStr(args[1])
    IN IF bound.exc # "none" THEN bound
       ELSE IF arity.exc # "none" THEN arity
       ELSE IF input_freq.exc # "none" THEN input_freq
       ELSE IF __ge__(input_freq.value, self.target_freq)
       THEN Raise("ValueError", "Can only aggregate to higher frequency.")
       ELSE Return(self.target_freq)

DownsampleFrequency_output_frequency(self, args) ==
    LET bound == OnePositional(args)
        arity == FrequencyHandler_output_frequency(self, args)
        input_freq == FreqStr(args[1])
    IN IF bound.exc # "none" THEN bound
       ELSE IF arity.exc # "none" THEN arity
       ELSE IF input_freq.exc # "none" THEN input_freq
       ELSE IF __gt__(input_freq.value, self.target_freq)
       THEN Raise("ValueError", "Can only aggregate to higher frequency.")
       ELSE Return(self.target_freq)

\* handler.output_frequency(*args), dispatched on the handler's class.
output_frequency_of(handler, args) ==
    CASE handler.cls = "PassthroughFrequency" ->
             PassthroughFrequency_output_frequency(handler, args)
      [] handler.cls = "IdenticalFrequencies" ->
             IdenticalFrequencies_output_frequency(handler, args)
      [] handler.cls = "CoarsestFrequency" ->
             CoarsestFrequency_output_frequency(handler, args)
      [] handler.cls = "FinestFrequency" ->
             FinestFrequency_output_frequency(handler, args)
      [] handler.cls = "DownsampleFrequency" ->
             DownsampleFrequency_output_frequency(handler, args)

\* ------------------------------------------------------------- inputs.py

SingleInput == [INPUT_N |-> <<1>>, INPUT_TYPES |-> <<"type">>]
SingleSeriesInput == [INPUT_N |-> <<1>>, INPUT_TYPES |-> <<"Series">>]
SingleDataFrameInput == [INPUT_N |-> <<1>>, INPUT_TYPES |-> <<"DataFrame">>]
NSeriesInput(n) == [INPUT_N |-> <<n>>, INPUT_TYPES |-> <<"Series">>]
MultipleSeriesInputs == [INPUT_N |-> <<>>, INPUT_TYPES |-> <<"Series">>]

check_input_number(self, inputs_list) ==
    IF self.INPUT_N # <<>> /\ Len(inputs_list) # self.INPUT_N[1]
    THEN Raise("ValueError", "Number of inputs expected is: INPUT_N.")
    ELSE Return(PyNone)

\* zip(inputs, types): with one declared type it is repeated for every input.
check_input_types(self, inputs) ==
    LET types == IF Len(self.INPUT_TYPES) = 1
                 THEN [i \in DOMAIN inputs |-> self.INPUT_TYPES[1]]
                 ELSE self.INPUT_TYPES
        n == Min2(Len(inputs), Len(types))
    IN IF \E i \in 1..n : inputs[i].py # types[i]
       THEN Raise("TypeError", "Input is not of the expected type.")
       ELSE Return(PyNone)

check_inputs(self, inputs) ==
    LET number == check_input_number(self, inputs)
    IN IF number.exc # "none" THEN number ELSE check_input_types(self, inputs)

\* -------------------------------------------------------------- nodes.py

\* The calculation units graphs are built from.  Nodes are compared by identity.
ChainNode(i) == "c" \o ToString(i)
ChainNodes == {ChainNode(i) : i \in 1..(MaxChain - 1)}
NodePool ==
    <<"inA", "inB", "sub", "add", "agg", "out">> \o [i \in 1..(MaxChain - 1) |-> ChainNode(i)]
NodeSet == {NodePool[i] : i \in DOMAIN NodePool}

Class(node) ==
    CASE node \in {"inA", "inB"} -> "Input"
      [] node = "sub" -> "Subtract"
      [] node = "add" \/ node \in ChainNodes -> "Add"
      [] node = "agg" -> "Aggregate"
      [] node = "out" -> "Output"

\* Input("A"), Input("B"), Output("X")
ts_name(node) ==
    CASE node = "inA" -> "A" [] node = "inB" -> "B" [] node = "out" -> "X"

\* Subtract(const_float=1.0), Add(const_float=5.0), and Add() for the chain nodes
const_float(node) ==
    CASE node = "sub" -> 1 [] node = "add" -> 5 [] node \in ChainNodes -> 0

\* Aggregate(frequency='Q', aggregation='max')
frequency(node) == CASE node = "agg" -> "Q"

check_input_order(node) == Class(node) = "Subtract"
check_output_order(node) == FALSE

frequency_handler(node) ==
    CASE Class(node) \in {"Input", "Output"} -> PassthroughFrequency
      [] Class(node) = "Add" -> IdenticalFrequencies(<<>>)
      [] Class(node) = "Subtract" -> IdenticalFrequencies(<<2>>)
      [] Class(node) = "Aggregate" -> DownsampleFrequency(FreqVal(frequency(node)))

inputs_handler(node) ==
    CASE Class(node) = "Input" -> SingleDataFrameInput
      [] Class(node) = "Output" -> SingleSeriesInput
      [] Class(node) = "Add" -> MultipleSeriesInputs
      [] Class(node) = "Subtract" -> NSeriesInput(2)
      [] Class(node) = "Aggregate" -> SingleInput

\* Calculation.output_frequency: the handler's bound method.
output_frequency(node, args) == output_frequency_of(frequency_handler(node), args)

\* The name of the result of a binary operation on two series.
BinopName(a, b) == IF a.name = b.name THEN a.name ELSE PyNone

\* Series of one table share their index: arithmetic is elementwise.
SeriesAdd(a, b) ==
    Series(BinopName(a, b), [i \in DOMAIN a.vals |-> a.vals[i] + b.vals[i]])
SeriesSub(a, b) ==
    Series(BinopName(a, b), [i \in DOMAIN a.vals |-> a.vals[i] - b.vals[i]])
SeriesPlusConst(a, c) == Series(a.name, [i \in DOMAIN a.vals |-> a.vals[i] + c])

\* Faulty variant of Input.compute: a missing column read as a column of zeros.
Input_compute_lenient(self, args) ==
    LET bound == OnePositional(args)
        checked == check_inputs(inputs_handler(self), args)
    IN IF bound.exc # "none" THEN bound
       ELSE IF checked.exc # "none" THEN checked
       ELSE IF ts_name(self) \notin DOMAIN args[1].cols
       THEN Return(Series(PyStr(ts_name(self)), <<0, 0, 0>>))
       ELSE Return(Series(PyStr(ts_name(self)), args[1].cols[ts_name(self)]))

Input_compute(self, args) ==
    LET bound == OnePositional(args)
        checked == check_inputs(inputs_handler(self), args)
    IN IF bound.exc # "none" THEN bound
       ELSE IF checked.exc # "none" THEN checked
       ELSE IF ts_name(self) \notin DOMAIN args[1].cols
       THEN Raise("KeyError", ts_name(self))
       ELSE Return(Series(PyStr(ts_name(self)), args[1].cols[ts_name(self)]))

Output_compute(self, args) ==
    LET bound == OnePositional(args)
        checked == check_inputs(inputs_handler(self), args)
    IN IF bound.exc # "none" THEN bound
       ELSE IF checked.exc # "none" THEN checked
       ELSE Return(Series(PyStr(ts_name(self)), args[1].vals))

\* reduce(lambda x, y: x + y, ts_n)
RECURSIVE ReduceAdd(_)
ReduceAdd(ts_n) ==
    IF Len(ts_n) = 1 THEN ts_n[1]
    ELSE SeriesAdd(ReduceAdd(SubSeq(ts_n, 1, Len(ts_n) - 1)), ts_n[Len(ts_n)])

\* Faulty variant of Add.compute: the constant left out.
Add_compute_no_const(self, ts_n) ==
    IF Len(ts_n) = 0
    THEN Raise("TypeError", "reduce() of empty iterable with no initial value")
    ELSE Return(ReduceAdd(ts_n))

Add_compute(self, ts_n) ==
    IF Len(ts_n) = 0
    THEN Raise("TypeError", "reduce() of empty iterable with no initial value")
    ELSE Return(SeriesPlusConst(ReduceAdd(ts_n), const_float(self)))

Subtract_compute(self, inputs) ==
    LET checked == check_inputs(inputs_handler(self), inputs)
    IN IF checked.exc # "none" THEN checked
       ELSE Return(SeriesPlusConst(SeriesSub(inputs[1], inputs[2]), 0 - const_float(self)))

SeqMax(vals) == CHOOSE m \in {vals[i] : i \in DOMAIN vals} : \A j \in DOMAIN vals : vals[j] <= m

\* data.resample(frequency).max() for data whose whole index lies in one period
\* of the target frequency: one row holding the maximum.
Aggregate_compute(self, args) ==
    LET bound == OnePositional(args)
    IN IF bound.exc # "none" THEN bound
       ELSE Return(Series(args[1].name, <<SeqMax(args[1].vals)>>))

\* node.compute(*args), dispatched on the node's class.
compute_of(node, args) ==
    CASE Class(node) = "Input" -> Input_compute(node, args)
      [] Class(node) = "Output" -> Output_compute(node, args)
      [] Class(node) = "Add" -> Add_compute(node, args)
      [] Class(node) = "Subtract" -> Subtract_compute(node, args)
      [] Class(node) = "Aggregate" -> Aggregate_compute(node, args)

\* getattr(node, method_name)(*args)
Invoke(node, method_name, args) ==
    IF method_name = "compute" THEN compute_of(node, args)
    ELSE output_frequency(node, args)

\* ------------------------------------------------------------- graphs.py

\* An edge of the constructor's edge list: (u, v, {'input_idx': k}); 0 stands
\* for an attribute the edge does not carry.
Edge(u, v, input_idx) == [u |-> u, v |-> v, input_idx |-> input_idx, output_idx |-> 0]

\* A sequence without its repeated items, first occurrences kept in order.
RECURSIVE Dedup(_)
Dedup(s) ==
    IF s = <<>> THEN <<>>
    ELSE LET r == Dedup(SubSeq(s, 1, Len(s) - 1))
             x == s[Len(s)]
         IN IF \E i \in DOMAIN r : r[i] = x THEN r ELSE Append(r, x)

NodesOf(E) == {E[i].u : i \in DOMAIN E} \cup {E[i].v : i \in DOMAIN E}
EdgeKeys(E) == {<<E[i].u, E[i].v>> : i \in DOMAIN E}

\* CompositeCalculation(name, edges): the DiGraph that add_edges_from builds.
\* nodes: u, then v, of every edge in list order; succ / pred: adjacency in
\* insertion order; attrs: the constructor-given attributes of every edge.
__init__(E) ==
    [nodes |-> Dedup([i \in 1..(2 * Len(E)) |->
                        IF i % 2 = 1 THEN E[(i + 1) \div 2].u ELSE E[i \div 2].v]),
     succ |-> [node \in NodesOf(E) |->
                  LET out == SelectSeq(E, LAMBDA e : e.u = node)
                  IN [i \in DOMAIN out |-> out[i].v]],
     pred |-> [node \in NodesOf(E) |->
                  LET inc == SelectSeq(E, LAMBDA e : e.v = node)
                  IN [i \in DOMAIN inc |-> inc[i].u]],
     attrs |-> [e \in EdgeKeys(E) |->
                  LET i == CHOOSE i \in DOMAIN E : E[i].u = e[1] /\ E[i].v = e[2]
                  IN [input_idx |-> E[i].input_idx, output_idx |-> E[i].output_idx]]]

\* sorted(items, key=...): stable, ascending by key.
RECURSIVE sorted(_)
sorted(items) ==
    IF items = <<>> THEN <<>>
    ELSE LET init == sorted(SubSeq(items, 1, Len(items) - 1))
             x == items[Len(items)]
             k == Cardinality({i \in DOMAIN init : init[i].key <= x.key})
         IN SubSeq(init, 1, k) \o <<x>> \o SubSeq(init, k + 1, Len(init))

\* Faulty variant of get_sorted_node_predecessors: input_idx ignored.
get_sorted_node_predecessors_unsorted(self, node) == Return(self.pred[node])

get_sorted_node_predecessors(self, node) ==
    IF check_input_order(node)
    THEN LET inputs == [i \in DOMAIN self.pred[node] |->
                           [node |-> self.pred[node][i],
                            key |-> self.attrs[<<self.pred[node][i], node>>].input_idx]]
             ordered == sorted(inputs)
         IN IF \E i \in DOMAIN inputs : inputs[i].key = 0
            THEN Raise("KeyError", "input_idx")
            ELSE Return([i \in DOMAIN ordered |-> ordered[i].node])
    ELSE Return(self.pred[node])

get_sorted_node_successors(self, node) ==
    IF check_output_order(node)
    THEN LET successors == [i \in DOMAIN self.succ[node] |->
                               [node |-> self.succ[node][i],
                                key |-> self.attrs[<<node, self.succ[node][i]>>].output_idx]]
             ordered == sorted(successors)
         IN IF \E i \in DOMAIN successors : successors[i].key = 0
            THEN Raise("KeyError", "output_idx")
            ELSE Return([i \in DOMAIN ordered |-> ordered[i].node])
    ELSE Return(self.succ[node])

\* [self.edges[predecessor, node][key] for predecessor in predecessor_nodes]
_get_predecessor_edge_information(ed, self, node, key) ==
    LET p == get_sorted_node_predecessors(self, node)
    IN IF p.exc # "none" THEN p
       ELSE IF \E i \in DOMAIN p.value : ed[<<p.value[i], node>>][key] = NoKey
       THEN Raise("KeyError", key)
       ELSE Return([i \in DOMAIN p.value |-> ed[<<p.value[i], node>>][key]])

\* zip(successors, values): the edges a call of _update_successor_edge_information
\* writes, each with the value it receives; pairs up to the shorter list.  (No
\* node class requests a successor order, so get_sorted_node_successors cannot
\* raise here.)
ZipSuccessors(self, node, values) ==
    LET successors == get_sorted_node_successors(self, node).value
    IN [i \in 1..Min2(Len(successors), Len(values)) |->
           [edge |-> <<node, successors[i]>>, value |-> values[i]]]

\* self.edges[node, successor_node][key] = value, for every pair
_update_successor_edge_information(ed, self, node, key, values) ==
    LET pairs == ZipSuccessors(self, node, values)
    IN [e \in DOMAIN ed |->
           IF \E i \in DOMAIN pairs : pairs[i].edge = e
           THEN [ed[e] EXCEPT ![key] = pairs[CHOOSE i \in DOMAIN pairs : pairs[i].edge = e].value]
           ELSE ed[e]]

input_nodes(self) == SelectSeq(self.nodes, LAMBDA node : Len(self.pred[node]) = 0)

\* Faulty variant of output_node: several successor-less nodes tolerated.
output_node_first(self) ==
    LET nodes_without_successors == SelectSeq(self.nodes, LAMBDA node : Len(self.succ[node]) = 0)
    IN IF Len(nodes_without_successors) = 0
       THEN Raise("ValueError", "The graph needs to have exactly one output node.")
       ELSE Return(nodes_without_successors[1])

\* Faulty variant of output_node: the last successor-less node taken when there
\* are several.
output_node_last(self) ==
    LET nodes_without_successors == SelectSeq(self.nodes, LAMBDA node : Len(self.succ[node]) = 0)
    IN IF Len(nodes_without_successors) = 0
       THEN Raise("ValueError", "The graph needs to have exactly one output node.")
       ELSE Return(nodes_without_successors[Len(nodes_without_successors)])

output_node(self) ==
    LET nodes_without_successors == SelectSeq(self.nodes, LAMBDA node : Len(self.succ[node]) = 0)
    IN IF Len(nodes_without_successors) # 1
       THEN Raise("ValueError", "The graph needs to have exactly one output node.")
       ELSE Return(nodes_without_successors[1])

_clear_cache(cache, self) ==
    [node \in DOMAIN cache |-> IF node \in DOMAIN self.succ THEN PyNone ELSE cache[node]]

\* Faulty variant of _clear_edge_info: the slot created where it is missing
\* (as by dict.setdefault), a payload of an earlier pass left in place.
_clear_edge_info_setdefault(ed, key) ==
    [e \in DOMAIN ed |-> IF ed[e][key] = NoKey THEN [ed[e] EXCEPT ![key] = PyNone] ELSE ed[e]]

\* Faulty variant of _clear_edge_info: every edge's attributes replaced by
\* {key: None}, the other pass's payload dropped with them.
_clear_edge_info_replace(ed, key) ==
    [e \in DOMAIN ed |-> [[compute |-> NoKey, output_frequency |-> NoKey] EXCEPT ![key] = PyNone]]

_clear_edge_info(ed, key) == [e \in DOMAIN ed |-> [ed[e] EXCEPT ![key] = PyNone]]

\* Faulty variant of _unvisited_nodes_with_all_inputs: any() in place of all()
\* for node_inputs_ready.
_unvisited_nodes_with_all_inputs_any(ed, self, edge_attribute) ==
    LET final == output_node(self)
    IN IF final.exc # "none" THEN final
       ELSE IF \E e \in DOMAIN ed : ed[e][edge_attribute] = NoKey
       THEN Raise("KeyError", edge_attribute)
       ELSE Return({node \in DOMAIN self.succ :
               LET is_final_node == node = final.value
                   node_visited ==
                       \A i \in DOMAIN self.succ[node] :
                           ed[<<node, self.succ[node][i]>>][edge_attribute] # PyNone
                   node_inputs_ready ==
                       \E i \in DOMAIN self.pred[node] :
                           ed[<<self.pred[node][i], node>>][edge_attribute] # PyNone
               IN node_inputs_ready /\ (~node_visited \/ is_final_node)})

\* The set built by _unvisited_nodes_with_all_inputs; reading a slot that an edge
\* does not have raises KeyError.
_unvisited_nodes_with_all_inputs(ed, self, edge_attribute) ==
    LET final == output_node(self)
    IN IF final.exc # "none" THEN final
       ELSE IF \E e \in DOMAIN ed : ed[e][edge_attribute] = NoKey
       THEN Raise("KeyError", edge_attribute)
       ELSE Return({node \in DOMAIN self.succ :
               LET is_final_node == node = final.value
                   node_visited ==
                       \A i \in DOMAIN self.succ[node] :
                           ed[<<node, self.succ[node][i]>>][edge_attribute] # PyNone
                   node_inputs_ready ==
                       \A i \in DOMAIN self.pred[node] :
                           ed[<<self.pred[node][i], node>>][edge_attribute] # PyNone
               IN node_inputs_ready /\ (~node_visited \/ is_final_node)})

\* list(a_set): the set's members in the enumeration order `order`, a permutation
\* of the node pool (sets of identity-hashed objects have no defined order).
ListOf(set, order) == SelectSeq(order, LAMBDA node : node \in set)

max_iter == 10

\* The state a pass works on: edge data, node caches, and a trace of the node
\* evaluations made so far (node, phase, round, arguments, outcome, edges written).
PassState(ed, cache) == [ed |-> ed, cache |-> cache, log |-> <<>>, rounds |-> 0]

\* One node evaluation recorded: the node's cache, the edges that
\* _update_successor_edge_information writes, and the trace entry.
Evaluated(st, self, node, method_name, phase, inputs, res, values) ==
    LET pairs == ZipSuccessors(self, node, values)
        With(ed) ==
            [ed |-> ed,
             cache |-> IF method_name = "compute" /\ res.exc = "none"
                       THEN [st.cache EXCEPT ![node] = res.value] ELSE st.cache,
             log |-> Append(st.log, [node |-> node, phase |-> phase, round |-> st.rounds,
                                     inputs |-> inputs, res |-> res,
                                     staged |-> {pairs[i].edge : i \in DOMAIN pairs}]),
             rounds |-> st.rounds]
    IN With(_update_successor_edge_information(st.ed, self, node, method_name, values))

\* raise ValueError(f"Problem occured when evaluating node {node}: {err}")
NodeError(node, err) ==
    [exc |-> "ValueError", msg |-> "Problem occured when evaluating node",
     node |-> node, cause |-> err.msg]

\* if not isinstance(calculation_results, list): calculation_results = [calculation_results]
AsList(value) == IF value.py = "list" THEN value ELSE PyList(<<value>>)

\* The body of `for node in computable_nodes`: ctl tells how the loop was left.
RECURSIVE ForNodes(_, _, _, _, _, _)
ForNodes(st, self, method_name, computable_nodes, final_node, calculation_results) ==
    LET node == Head(computable_nodes)
        Called(inputs, res) ==
            LET Staged(st1) ==
                    IF res.exc = "ValueError"
                    THEN [st |-> st1, ctl |-> "raise", exc |-> NodeError(node, res)]
                    ELSE IF res.exc # "none"
                    THEN [st |-> st1, ctl |-> "raise", exc |-> res]
                    ELSE IF node # final_node
                    THEN ForNodes(st1, self, method_name, Tail(computable_nodes),
                                  final_node, AsList(res.value))
                    ELSE [st |-> st1, ctl |-> "break",
                          calculation_results |-> AsList(res.value)]
            IN Staged(Evaluated(st, self, node, method_name, "loop", inputs.value, res,
                                IF res.exc = "none" /\ node # final_node
                                THEN AsList(res.value).items ELSE <<>>))
        Gathered(inputs) ==
            IF inputs.exc # "none"
            THEN [st |-> st, ctl |-> "raise", exc |-> inputs]
            ELSE Called(inputs, Invoke(node, method_name, inputs.value))
    IN IF computable_nodes = <<>>
       THEN [st |-> st, ctl |-> "exhausted", calculation_results |-> calculation_results]
       ELSE Gathered(_get_predecessor_edge_information(st.ed, self, node, method_name))

\* while len(computable_nodes) > 0 and iters_left > 0, then the final check.
RECURSIVE WhileLoop(_, _, _, _, _, _, _, _, _)
WhileLoop(st, self, method_name, order, final_node, computable_nodes, iters_left, final_node_reached, calculation_results) ==
    LET Body(body) ==
            IF body.ctl = "raise"
            THEN [st |-> body.st, outcome |-> body.exc]
            ELSE WhileLoop(body.st, self, method_name, order, final_node,
                           _unvisited_nodes_with_all_inputs(body.st.ed, self, method_name).value,
                           iters_left - 1,
                           final_node_reached \/ body.ctl = "break",
                           body.calculation_results)
    IN IF computable_nodes # {} /\ iters_left > 0
       THEN Body(ForNodes([st EXCEPT !.rounds = @ + 1], self, method_name,
                          ListOf(computable_nodes, order), final_node, calculation_results))
       ELSE IF ~final_node_reached
       THEN [st |-> st, outcome |-> Raise("ValueError", "Couldn't reach the final node.")]
       ELSE [st |-> st, outcome |-> Return(calculation_results)]

_traverse_graph_short(st, self, method_name, order) ==
    LET From(final_node, computable_nodes) ==
            IF final_node.exc # "none"
            THEN [st |-> st, outcome |-> final_node]
            ELSE IF computable_nodes.exc # "none"
            THEN [st |-> st, outcome |-> computable_nodes]
            ELSE WhileLoop(st, self, method_name, order, final_node.value,
                           computable_nodes.value, max_iter - 1, FALSE, PyNone)
    IN From(output_node(self), _unvisited_nodes_with_all_inputs(st.ed, self, method_name))

_traverse_graph(st, self, method_name, order) ==
    LET From(final_node, computable_nodes) ==
            IF final_node.exc # "none"
            THEN [st |-> st, outcome |-> final_node]
            ELSE IF computable_nodes.exc # "none"
            THEN [st |-> st, outcome |-> computable_nodes]
            ELSE WhileLoop(st, self, method_name, order, final_node.value,
                           computable_nodes.value, max_iter, FALSE, PyNone)
    IN From(output_node(self), _unvisited_nodes_with_all_inputs(st.ed, self, method_name))

\* input_frequencies[node.ts_name]
FrequencyArgs(input_frequencies, node) ==
    IF Class(node) \notin {"Input", "Output"}
    THEN Raise("AttributeError", "object has no attribute 'ts_name'")
    ELSE IF ts_name(node) \notin DOMAIN input_frequencies
    THEN Raise("KeyError", ts_name(node))
    ELSE Return(<<PyStr(input_frequencies[ts_name(node)])>>)

\* The argument list of the seed call of `node`: (input_data) for compute,
\* (input_frequencies[node.ts_name]) for parse_frequencies.
SeedArgs(method_name, supplied, node) ==
    IF method_name = "compute" THEN Return(<<supplied>>)
    ELSE FrequencyArgs(supplied, node)

\* The seed loop of compute / parse_frequencies: `for node in self.input_nodes`.
RECURSIVE Seed(_, _, _, _, _)
Seed(st, self, method_name, todo, supplied) ==
    LET node == Head(todo)
        Called(args, res) ==
            LET Staged(st1) ==
                    IF res.exc # "none" THEN [st |-> st1, outcome |-> res]
                    ELSE Seed(st1, self, method_name, Tail(todo), supplied)
            IN Staged(Evaluated(st, self, node, method_name, "seed", args.value, res,
                                IF res.exc = "none" THEN <<res.value>> ELSE <<>>))
        Supplied(args) ==
            IF args.exc # "none" THEN [st |-> st, outcome |-> args]
            ELSE Called(args, Invoke(node, method_name, args.value))
    IN IF todo = <<>> THEN [st |-> st, outcome |-> Return(PyNone)]
       ELSE Supplied(SeedArgs(method_name, supplied, node))

\* The traversal that follows a seed loop which raised nothing.
AfterSeed(seeded, self, method_name, order) ==
    IF seeded.outcome.exc # "none" THEN seeded
    ELSE _traverse_graph(seeded.st, self, method_name, order)

\* compute(input_data)
compute(ed, cache, self, input_data, order) ==
    AfterSeed(Seed(PassState(_clear_edge_info(ed, "compute"), _clear_cache(cache, self)),
                   self, "compute", input_nodes(self), input_data),
              self, "compute", order)

\* parse_frequencies(input_frequencies)
parse_frequencies(ed, cache, self, input_frequencies, order) ==
    AfterSeed(Seed(PassState(_clear_edge_info(ed, "output_frequency"), cache),
                   self, "output_frequency", input_nodes(self), input_frequencies),
              self, "output_frequency", order)

\* ------------------------------------------------------- inputs of the model

\* Candidate edges.  Input nodes take no incoming edge, the Output node has no
\* outgoing edge, the Aggregate node feeds only the Output node (so that series
\* combined by Add / Subtract always share the table's index), and every edge
\* into the order-sensitive Subtract node carries an input_idx.
EdgeUniverse ==
    { Edge("inA", "sub", 1), Edge("inB", "sub", 2), Edge("add", "sub", 2),
      Edge("inA", "add", 0), Edge("inB", "add", 0), Edge("sub", "add", 0),
      Edge("add", "add", 0),
      Edge("inA", "agg", 0),
      Edge("inA", "out", 0), Edge("sub", "out", 0),
      Edge("add", "out", 0), Edge("agg", "out", 0) }

\* Edge lists of at most MaxEdges edges, no node pair twice, in which every node
\* without predecessor is an Input node.
EdgeLists ==
    { E \in UNION {[1..k -> EdgeUniverse] : k \in 0..MaxEdges} :
        /\ \A i, j \in DOMAIN E : (E[i].u = E[j].u /\ E[i].v = E[j].v) => i = j
        /\ \A node \in NodesOf(E) :
               (\A i \in DOMAIN E : E[i].v # node) => Class(node) = "Input" }

\* The sets of names a caller supplies: both, only "A", or none.
SuppliedNames == {{"A", "B"}, {"A"}, {}}

\* The frequency maps passed to parse_frequencies.
InputFreqs == {"M", "A"}
FreqMaps == UNION {[S -> InputFreqs] : S \in SuppliedNames}

\* The tables passed to compute.
TableColumns == [A |-> <<1, 2, 3>>, B |-> <<10, 20, 30>>]
Tables == {DataFrame([c \in S |-> TableColumns[c]]) : S \in SuppliedNames}

\* The enumeration orders of a set of nodes (fixed by the hashes of the node
\* objects, hence chosen once per graph instance).
Orders == {NodePool, [i \in DOMAIN NodePool |-> NodePool[Len(NodePool) + 1 - i]]}

\* All tuples of at most MaxArity frequencies.
FreqTuples == UNION {[1..k -> {FreqVal(f) : f \in FreqNames}] : k \in 0..MaxArity}

\* --------------------------------------------------------- the state machine

FreshEdgeData(self) ==
    [e \in DOMAIN self.attrs |-> [compute |-> NoKey, output_frequency |-> NoKey]]
FreshCache == [node \in NodeSet |-> PyNone]

\* After CompositeCalculation(name, edges): no edge has a payload slot yet.
Init ==
    /\ graph \in {__init__(E) : E \in EdgeLists}
    /\ set_order \in Orders
    /\ edge_data = FreshEdgeData(graph)
    /\ result_cache = FreshCache
    /\ last = [op |-> "construct"]
    /\ ncalls = 0
    /\ hcall = [handler |-> "none"]

Returned(op, arg, r) ==
    /\ edge_data' = r.st.ed
    /\ result_cache' = r.st.cache
    /\ last' = [op |-> op, arg |-> arg, outcome |-> r.outcome,
                log |-> r.st.log, rounds |-> r.st.rounds,
                before |-> [ed |-> edge_data, cache |-> result_cache]]
    /\ ncalls' = ncalls + 1
    /\ UNCHANGED <<graph, set_order, hcall>>

Compute(input_data) ==
    /\ ncalls < MaxCalls
    /\ Returned("compute", input_data,
                compute(edge_data, result_cache, graph, input_data, set_order))

ParseFrequencies(input_frequencies) ==
    /\ ncalls < MaxCalls
    /\ Returned("parse_frequencies", input_frequencies,
                parse_frequencies(edge_data, result_cache, graph, input_frequencies,
                                  set_order))

QueryOutputNode ==
    /\ ncalls < MaxCalls
    /\ last' = [op |-> "output_node", outcome |-> output_node(graph)]
    /\ ncalls' = ncalls + 1
    /\ UNCHANGED <<graph, set_order, edge_data, result_cache, hcall>>

QueryInputNodes ==
    /\ ncalls < MaxCalls
    /\ last' = [op |-> "input_nodes", outcome |-> Return(PyList(input_nodes(graph)))]
    /\ ncalls' = ncalls + 1
    /\ UNCHANGED <<graph, set_order, edge_data, result_cache, hcall>>

Next ==
    \/ \E input_data \in Tables : Compute(input_data)
    \/ \E input_frequencies \in FreqMaps : ParseFrequencies(input_frequencies)
    \/ QueryOutputNode
    \/ QueryInputNodes

Spec == Init /\ [][Next]_vars

\* ---- deep graphs: a chain Input("A") -> Add() -> ... -> Add() -> Output("X")
\* of 1 to MaxChain edges, alone or with Input("B") joining one of its Add nodes.

Chain(L) ==
    [i \in 1..L |-> Edge(IF i = 1 THEN "inA" ELSE ChainNode(i - 1),
                         IF i = L THEN "out" ELSE ChainNode(i), 0)]

ChainEdgeLists ==
    {Chain(L) : L \in 1..MaxChain}
    \cup UNION {{Append(Chain(L), Edge("inB", ChainNode(j), 0)) : j \in 1..(L - 1)} :
                   L \in 2..MaxChain}

InitChains ==
    /\ graph \in {__init__(E) : E \in ChainEdgeLists}
    /\ set_order \in Orders
    /\ edge_data = FreshEdgeData(graph)
    /\ result_cache = FreshCache
    /\ last = [op |-> "construct"]
    /\ ncalls = 0
    /\ hcall = [handler |-> "none"]

SpecChains == InitChains /\ [][Next]_vars

\* ---- direct calls of the frequency handlers

Handlers ==
    {PassthroughFrequency, CoarsestFrequency, FinestFrequency}
    \cup {IdenticalFrequencies(n) : n \in {<<>>} \cup {<<k>> : k \in 1..MaxArity}}
    \cup {DownsampleFrequency(FreqVal(f)) : f \in FreqNames}

InitHandlers ==
    /\ graph = __init__(<<>>)
    /\ set_order = NodePool
    /\ edge_data = FreshEdgeData(graph)
    /\ result_cache = FreshCache
    /\ last = [op |-> "construct"]
    /\ ncalls = 0
    /\ hcall = [handler |-> "none"]

CallHandler(handler, input_freqs) ==
    /\ hcall.handler = "none"
    /\ hcall' = [handler |-> handler.cls, self |-> handler, args |-> input_freqs,
                 res |-> output_frequency_of(handler, input_freqs)]
    /\ UNCHANGED <<graph, set_order, edge_data, result_cache, last, ncalls>>

NextHandlers ==
    \E handler \in Handlers, input_freqs \in FreqTuples : CallHandler(handler, input_freqs)

SpecHandlers == InitHandlers /\ [][NextHandlers]_vars

\* ------------------------------------------------- vocabulary of the properties

Passes == {"compute", "parse_frequencies"}

Nodes == DOMAIN graph.succ
SuccessorsOf(node) == {graph.succ[node][i] : i \in DOMAIN graph.succ[node]}

\* The nodes reached from `from` along at least one edge.
RECURSIVE ReachedWithin(_, _)
ReachedWithin(from, k) ==
    IF k = 0 THEN {}
    ELSE LET near == ReachedWithin(from, k - 1)
         IN UNION {SuccessorsOf(node) : node \in from \cup near}
Descendants(node) == ReachedWithin({node}, Cardinality(Nodes))

OnCycle(node) == node \in Descendants(node)
HasCycle == \E node \in Nodes : OnCycle(node)
OnOrDownstreamOfCycle(node) ==
    \E c \in Nodes : OnCycle(c) /\ (node = c \/ node \in Descendants(c))

\* The successor-less nodes, and the nodes without predecessor.
Sinks == {node \in Nodes : graph.succ[node] = <<>>}
Sources == {node \in Nodes : graph.pred[node] = <<>>}
TheSink == CHOOSE node \in Sinks : TRUE

\* The names the caller of the last pass supplied, and the names of the input
\* nodes that it did not supply.
Supplied ==
    IF last.op = "compute" THEN DOMAIN last.arg.cols ELSE DOMAIN last.arg
Unsupplied == {ts_name(node) : node \in Sources} \ Supplied

StructuralError == Raise("ValueError", "The graph needs to have exactly one output node.")
GraphIncomplete == Raise("ValueError", "Couldn't reach the final node.")

\* The frequency a node of an acyclic graph puts out when every node is handed
\* the frequencies of all its predecessors in input order: the reference against
\* which "no handler rejects the supplied frequencies" is read.
RECURSIVE DeclaredFrequency(_, _)
DeclaredFrequency(node, m) ==
    IF node \in Sources
    THEN IF ts_name(node) \in DOMAIN m
         THEN output_frequency(node, <<PyStr(m[ts_name(node)])>>)
         ELSE Raise("KeyError", ts_name(node))
    ELSE LET preds == get_sorted_node_predecessors(graph, node)
             Of(i) == DeclaredFrequency(preds.value[i], m)
         IN IF preds.exc # "none" THEN preds
            ELSE IF \E i \in DOMAIN preds.value : Of(i).exc # "none"
            THEN Raise("ValueError", "a predecessor is rejected")
            ELSE output_frequency(node, [i \in DOMAIN preds.value |-> Of(i).value])

Consistent(m) == \A node \in Nodes : DeclaredFrequency(node, m).exc = "none"

\* ------------------------------------------------------------------ claims

\* C1: on every acyclic graph with exactly one successor-less node and supplied
\* frequencies that no handler rejects, parse_frequencies reaches the output
\* node within max_iter rounds and completes.
C1_ParseCompletes ==
    (/\ last.op = "parse_frequencies"
     /\ ~HasCycle
     /\ Cardinality(Sinks) = 1
     /\ Consistent(last.arg))
    => (last.outcome.exc = "none" /\ last.rounds <= max_iter)

\* C2: a parse_frequencies call has the outcome that the same call has on the
\* freshly constructed graph, whatever passes ran on the instance before.
C2_ParseIsPure ==
    last.op = "parse_frequencies"
    => last.outcome = parse_frequencies(FreshEdgeData(graph), FreshCache, graph,
                                        last.arg, set_order).outcome

\* A second pass that found a frequency of an earlier pass on an edge, and
\* left another value there.
C2_Witness ==
    /\ last.op = "parse_frequencies"
    /\ ncalls = 2
    /\ last.outcome.exc = "none"
    /\ \E e \in DOMAIN edge_data :
           /\ last.before.ed[e].output_frequency \notin {NoKey, PyNone}
           /\ edge_data[e].output_frequency \notin {NoKey, PyNone}
           /\ last.before.ed[e].output_frequency # edge_data[e].output_frequency

\* C3 as stated, for passes that are given every input name: a pass on a graph
\* with a cycle and exactly one successor-less node stops within max_iter
\* rounds and fails with "Couldn't reach the final node".
C3_CyclicPassIncomplete ==
    (last.op \in Passes /\ HasCycle /\ Cardinality(Sinks) = 1 /\ Unsupplied = {})
    => (last.rounds <= max_iter /\ last.outcome = GraphIncomplete)

\* C3 amended: such a pass stops within max_iter rounds and evaluates no node
\* on or downstream of a cycle; when the output node is downstream of a cycle
\* the pass returns nothing, and its failure is "Couldn't reach the final node"
\* whenever every input name is supplied and no evaluated node raises.
C3_CyclicPassBounded ==
    (last.op \in Passes /\ HasCycle /\ Cardinality(Sinks) = 1)
    => /\ last.rounds <= max_iter
       /\ \A i \in DOMAIN last.log : ~OnOrDownstreamOfCycle(last.log[i].node)
       /\ OnOrDownstreamOfCycle(TheSink)
          => /\ last.outcome.exc # "none"
             /\ (Unsupplied = {} /\ \A i \in DOMAIN last.log : last.log[i].res.exc = "none")
                => last.outcome = GraphIncomplete

\* A pass on a graph whose output node is downstream of a cycle that seeded an
\* input node and ended with "Couldn't reach the final node".
C3_Witness ==
    /\ last.op \in Passes
    /\ HasCycle
    /\ Cardinality(Sinks) = 1
    /\ OnOrDownstreamOfCycle(TheSink)
    /\ last.log # <<>>
    /\ last.outcome = GraphIncomplete

\* C4 as stated: the output_node query returns the successor-less node iff
\* there is exactly one, and with none or several every query and every pass
\* fails with the structural error.
C4_OutputNodeOrStructuralError ==
    /\ last.op = "output_node"
       => last.outcome = IF Cardinality(Sinks) = 1 THEN Return(TheSink) ELSE StructuralError
    /\ (last.op \in Passes /\ Cardinality(Sinks) # 1)
       => last.outcome = StructuralError

\* C4 amended: the query is as stated; with none or several successor-less
\* nodes every pass fails before its first round, with the structural error
\* when every input name is supplied and with the seed step's KeyError otherwise.
C4_OutputNodeQuery ==
    /\ last.op = "output_node"
       => last.outcome = IF Cardinality(Sinks) = 1 THEN Return(TheSink) ELSE StructuralError
    /\ (last.op \in Passes /\ Cardinality(Sinks) # 1)
       => /\ last.rounds = 0
          /\ \A i \in DOMAIN last.log : last.log[i].phase = "seed"
          /\ IF Unsupplied = {} THEN last.outcome = StructuralError
             ELSE last.outcome.exc = "KeyError" /\ last.outcome.msg \in Unsupplied

\* A pass on a graph with two successor-less nodes that seeded an input node
\* and then failed with the structural error.
C4_Witness ==
    /\ last.op \in Passes
    /\ Cardinality(Sinks) = 2
    /\ last.log # <<>>
    /\ last.outcome = StructuralError

\* C5: a Subtract node with exactly the incoming edges A (input_idx 1) and
\* B (input_idx 2) is invoked with (payload of A, payload of B) and returns
\* A - B - const, in whatever order the edge list names the two edges.
C5_SubtractInputOrder ==
    (/\ last.op = "compute"
     /\ "sub" \in Nodes
     /\ {graph.pred["sub"][i] : i \in DOMAIN graph.pred["sub"]} = {"inA", "inB"}
     /\ graph.attrs[<<"inA", "sub">>].input_idx = 1
     /\ graph.attrs[<<"inB", "sub">>].input_idx = 2)
    => \A i \in DOMAIN last.log :
           last.log[i].node = "sub"
           => /\ last.log[i].inputs = <<Series(PyStr("A"), TableColumns.A),
                                        Series(PyStr("B"), TableColumns.B)>>
              /\ last.log[i].res.exc = "none"
              /\ last.log[i].res.value.vals =
                     [k \in DOMAIN TableColumns.A |->
                         TableColumns.A[k] - TableColumns.B[k] - const_float("sub")]

\* The edge from B precedes the edge from A in the edge list, and the Subtract
\* node was evaluated.
C5_Witness ==
    /\ last.op = "compute"
    /\ "sub" \in Nodes
    /\ graph.pred["sub"] = <<"inB", "inA">>
    /\ graph.attrs[<<"inA", "sub">>].input_idx = 1
    /\ graph.attrs[<<"inB", "sub">>].input_idx = 2
    /\ \E i \in DOMAIN last.log : last.log[i].node = "sub" /\ last.log[i].res.exc = "none"

\* C6: a compute pass over a table that lacks the column of some input node
\* fails in the seed step: before any round, and with no node that has a
\* predecessor evaluated.
C6_MissingColumnFailsInSeed ==
    (last.op = "compute" /\ Unsupplied # {})
    => /\ last.outcome.exc = "KeyError"
       /\ last.outcome.msg \in Unsupplied
       /\ last.rounds = 0
       /\ \A i \in DOMAIN last.log :
              last.log[i].phase = "seed" /\ last.log[i].node \in Sources

\* One input node was seeded from its column before the node whose column is
\* missing failed, in a graph that has a node downstream of both.
C6_Witness ==
    /\ last.op = "compute"
    /\ Unsupplied # {}
    /\ Len(last.log) = 2
    /\ last.log[1].res.exc = "none"
    /\ last.log[2].res.exc = "KeyError"
    /\ \E node \in Nodes : Len(graph.pred[node]) = 2

\* C7: a successful pass returns the value that the output node's method
\* produced; for Input("A") -> Output("X") and the table {"A": [1, 2, 3]},
\* the series named "X" with the values 1, 2, 3.
C7_ReturnsOutputValue ==
    /\ (last.op \in Passes /\ last.outcome.exc = "none")
       => \E i \in DOMAIN last.log :
              /\ last.log[i].node = TheSink
              /\ last.log[i].res = last.outcome
    /\ (/\ last.op = "compute"
        /\ DOMAIN graph.attrs = {<<"inA", "out">>}
        /\ "A" \in Supplied)
       => last.outcome = Return(Series(PyStr("X"), <<1, 2, 3>>))

\* The rank of a frequency: Daily 1 < Monthly 2 < Quarterly 3 < Annual 4.
Rank == [D |-> 1, M |-> 2, Q |-> 3, A |-> 4]

ArgsOf(call) == {call.args[i] : i \in DOMAIN call.args}
RankMax(freqs) == CHOOSE f \in freqs : \A g \in freqs : Rank[g.value] <= Rank[f.value]
RankMin(freqs) == CHOOSE f \in freqs : \A g \in freqs : Rank[f.value] <= Rank[g.value]

\* C8: the comparisons of frequencies are those of their ranks, and on every
\* non-empty tuple CoarsestFrequency returns the frequency of greatest rank and
\* FinestFrequency the frequency of least rank.
C8_CoarsestFinest ==
    /\ \A f, g \in FreqNames :
           /\ __lt__(FreqVal(f), FreqVal(g)) <=> Rank[f] < Rank[g]
           /\ __le__(FreqVal(f), FreqVal(g)) <=> Rank[f] <= Rank[g]
           /\ __gt__(FreqVal(f), FreqVal(g)) <=> Rank[f] > Rank[g]
           /\ __ge__(FreqVal(f), FreqVal(g)) <=> Rank[f] >= Rank[g]
    /\ (hcall.handler = "CoarsestFrequency" /\ hcall.args # <<>>)
       => hcall.res = Return(RankMax(ArgsOf(hcall)))
    /\ (hcall.handler = "FinestFrequency" /\ hcall.args # <<>>)
       => hcall.res = Return(RankMin(ArgsOf(hcall)))

\* CoarsestFrequency called on (Monthly, Annual, Quarterly) returned Annual.
C8_Witness ==
    /\ hcall.handler = "CoarsestFrequency"
    /\ hcall.args = <<FreqVal("M"), FreqVal("A"), FreqVal("Q")>>
    /\ hcall.res = Return(FreqVal("A"))

\* C9: on every tuple that passes the arity check IdenticalFrequencies returns
\* the common frequency when all inputs are equal, and fails with the
\* incompatible-frequencies error when two inputs differ.
C9_IdenticalOrIncompatible ==
    (/\ hcall.handler = "IdenticalFrequencies"
     /\ (hcall.self.INPUTS_N = <<>> \/ Len(hcall.args) = hcall.self.INPUTS_N[1]))
    => IF \A f, g \in ArgsOf(hcall) : f = g
       THEN /\ hcall.res.exc = "none"
            /\ \A f \in ArgsOf(hcall) : hcall.res.value = f
       ELSE hcall.res = Raise("ValueError", "Needs identical frequencies.")

\* C10: DownsampleFrequency(target) returns target for an input frequency of
\* rank at most the target's, and fails with the invalid-aggregation error for
\* an input frequency of greater rank.
C10_DownsampleByRank ==
    (hcall.handler = "DownsampleFrequency" /\ Len(hcall.args) = 1)
    => hcall.res = IF Rank[hcall.args[1].value] <= Rank[hcall.self.target_freq.value]
                   THEN Return(hcall.self.target_freq)
                   ELSE Raise("ValueError", "Can only aggregate to higher frequency.")

\* DownsampleFrequency(Quarterly) called on Annual failed.
C10_Witness ==
    /\ hcall.handler = "DownsampleFrequency"
    /\ hcall.self.target_freq = FreqVal("Q")
    /\ hcall.args = <<FreqVal("A")>>
    /\ hcall.res.exc = "ValueError"

C12_NodeFailuresWrapped ==
    last.op \in Passes
    => \A i \in DOMAIN last.log :
           (last.log[i].phase = "loop" /\ last.log[i].res.exc # "none")
           => /\ last.outcome.exc = "ValueError"
              /\ last.outcome.msg = "Problem occured when evaluating node"
              /\ last.outcome.node = last.log[i].node

\* The evaluations of the Add node (const 5) on the two series 1, 2, 3 and
\* 10, 20, 30, in either order.
AddOfBothColumns(entry) ==
    /\ entry.node = "add"
    /\ Len(entry.inputs) = 2
    /\ {entry.inputs[1].vals, entry.inputs[2].vals} = {<<1, 2, 3>>, <<10, 20, 30>>}

\* C13 as stated: Add(const=5) over the aligned series 1, 2, 3 and 10, 20, 30
\* returns 16, 22, 38.
C13_AddReturns16_22_38 ==
    last.op = "compute"
    => \A i \in DOMAIN last.log :
           AddOfBothColumns(last.log[i])
           => /\ last.log[i].res.exc = "none"
              /\ last.log[i].res.value.vals = <<16, 22, 38>>

\* C13 amended: Add(const=5) over the aligned series 1, 2, 3 and 10, 20, 30
\* returns 16, 27, 38.
C13_AddReturns16_27_38 ==
    last.op = "compute"
    => \A i \in DOMAIN last.log :
           AddOfBothColumns(last.log[i])
           => /\ last.log[i].res.exc = "none"
              /\ last.log[i].res.value.vals = <<16, 27, 38>>

\* The Add node was evaluated on the two series.
C13_Witness ==
    /\ last.op = "compute"
    /\ \E i \in DOMAIN last.log :
           AddOfBothColumns(last.log[i]) /\ last.log[i].res.exc = "none"

\* C14: on a graph in which every node has a predecessor, the input_nodes
\* query fails with a structural error.
C14_InputNodesChecked ==
    (last.op = "input_nodes" /\ Sources = {})
    => last.outcome.exc = "ValueError"

\* C15: an evaluation of a node that has successors, in the seed step or in the
\* fixpoint loop, stages the result onto every outgoing edge of the node.
C15_StagedOnAllEdges ==
    last.op \in Passes
    => \A i \in DOMAIN last.log :
           (/\ last.log[i].res.exc = "none"
            /\ SuccessorsOf(last.log[i].node) # {})
           => last.log[i].staged =
                  {<<last.log[i].node, s>> : s \in SuccessorsOf(last.log[i].node)}

\* C16: in a successful pass the output node is evaluated exactly once, and
\* its evaluation is the last evaluation of the pass.
C16_OutputEvaluatedOnce ==
    (last.op \in Passes /\ last.outcome.exc = "none")
    => /\ Cardinality({i \in DOMAIN last.log : last.log[i].node = TheSink}) = 1
       /\ last.log[Len(last.log)].node = TheSink

\* C17: a node that has successors is evaluated at most once in a pass, seed
\* step included (so it is never selected again once one of its outgoing edges
\* is populated).
C17_EvaluatedAtMostOnce ==
    last.op \in Passes
    => \A i, j \in DOMAIN last.log :
           (/\ last.log[i].node = last.log[j].node
            /\ SuccessorsOf(last.log[i].node) # {})
           => i = j

\* The number of edges of the longest path from a predecessor-less node to
\* `node`, in an acyclic graph.
RECURSIVE Depth(_)
Depth(node) ==
    IF node \in Sources THEN 0
    ELSE LET below == {Depth(graph.pred[node][i]) : i \in DOMAIN graph.pred[node]}
         IN 1 + CHOOSE d \in below : \A e \in below : e <= d

\* C18: on an acyclic graph with one successor-less node in which every node
\* has at most one successor, a pass in which no node fails succeeds if and
\* only if the longest path from an input node to the output node has at most
\* max_iter edges, and fails with "Couldn't reach the final node" otherwise.
C18_DepthBound ==
    (/\ last.op \in Passes
     /\ ~HasCycle
     /\ Cardinality(Sinks) = 1
     /\ \A node \in Nodes : Len(graph.succ[node]) <= 1
     /\ Unsupplied = {}
     /\ \A i \in DOMAIN last.log : last.log[i].res.exc = "none")
    => /\ last.outcome.exc = "none" <=> Depth(TheSink) <= max_iter
       /\ Depth(TheSink) > max_iter => last.outcome = GraphIncomplete

\* A pass on a chain of max_iter + 1 edges evaluated a node in every round and
\* failed with "Couldn't reach the final node".
C18_Witness ==
    /\ last.op \in Passes
    /\ ~HasCycle
    /\ Depth(TheSink) = max_iter + 1
    /\ last.rounds = max_iter
    /\ \A i \in DOMAIN last.log : last.log[i].res.exc = "none"
    /\ last.outcome = GraphIncomplete

\* C19: a pass leaves the other pass's state alone: parse_frequencies leaves
\* every edge's 'compute' payload and every node's result cache as they were,
\* compute leaves every edge's 'output_frequency' payload as it was, and the
\* edges that carry payloads stay those of the constructed graph.
C19_PassFrame ==
    /\ DOMAIN edge_data = DOMAIN graph.attrs
    /\ last.op = "parse_frequencies"
       => /\ \A e \in DOMAIN edge_data : edge_data[e].compute = last.before.ed[e].compute
          /\ result_cache = last.before.cache
    /\ last.op = "compute"
       => \A e \in DOMAIN edge_data :
              edge_data[e].output_frequency = last.before.ed[e].output_frequency

\* parse_frequencies ran on a graph whose edges held 'compute' payloads and
\* whose nodes held cached results of an earlier compute, and wrote a frequency.
C19_Witness ==
    /\ last.op = "parse_frequencies"
    /\ \E e \in DOMAIN edge_data : last.before.ed[e].compute \notin {NoKey, PyNone}
    /\ \E node \in Nodes : last.before.cache[node] # PyNone
    /\ \E e \in DOMAIN edge_data : edge_data[e].output_frequency \notin {NoKey, PyNone}

\* The edge attribute a pass stages its results under.
PassKey == IF last.op = "compute" THEN "compute" ELSE "output_frequency"

\* Every edge holds a payload of the last pass, and every node was evaluated.
AllEdgesPopulated ==
    /\ \A e \in DOMAIN edge_data : edge_data[e][PassKey] \notin {NoKey, PyNone}
    /\ \A node \in Nodes : \E i \in DOMAIN last.log : last.log[i].node = node

\* C20 as stated: whenever a pass returns successfully, every edge of the graph
\* holds a populated payload of that pass and every node was evaluated.
C20_SuccessPopulatesAll ==
    (last.op \in Passes /\ last.outcome.exc = "none") => AllEdgesPopulated

\* C20 amended: on a graph without a cycle, whenever a pass returns
\* successfully, every edge of the graph holds a populated payload of that pass
\* and every node was evaluated.
C20_AcyclicSuccessPopulatesAll ==
    (last.op \in Passes /\ last.outcome.exc = "none" /\ ~HasCycle) => AllEdgesPopulated

\* A pass on an acyclic graph of three edges with a node that is neither an
\* input nor the output returned successfully with every edge populated.
C20_Witness ==
    /\ last.op \in Passes
    /\ last.outcome.exc = "none"
    /\ ~HasCycle
    /\ Cardinality(DOMAIN edge_data) = MaxEdges
    /\ \E node \in Nodes : node \notin Sources \cup Sinks
    /\ AllEdgesPopulated

\* The outcome of the last parse_frequencies pass had the frontier of every
\* round been enumerated in the order `order`.
OutcomeUnder(order) ==
    parse_frequencies(last.before.ed, last.before.cache, graph, last.arg, order).outcome

\* C21: the outcome of parse_frequencies does not depend on the order in which
\* the ready nodes of a round are evaluated: under every enumeration order the
\* pass succeeds with the same returned frequency, or it fails under every order.
C21_OrderIndependent ==
    last.op = "parse_frequencies"
    => \A order \in Orders :
           /\ OutcomeUnder(order).exc = "none" <=> last.outcome.exc = "none"
           /\ last.outcome.exc = "none" => OutcomeUnder(order) = last.outcome

====
